---------------------------- MODULE Spec2Model ----------------------------
(***************************************************************************)
(* ERWIQ Airlines support agent: the multi-backend chat orchestration of   *)
(* app.py (chat_with_fallback, chat_with_tools, chat_claude, chat_gemini,  *)
(* execute_tool_call), the tool executor of tools.py (execute_tool) and    *)
(* the logging / notification sinks of utils.py (log_interaction,          *)
(* send_notification).                                                     *)
(*                                                                         *)
(* The backends, the image API and the embedding API are external: each    *)
(* call either returns or raises, chosen nondeterministically.  Texts are  *)
(* abstract strings; Python's None is the string NoneVal.  Wall-clock      *)
(* timestamps and latencies are not modelled.                              *)
(***************************************************************************)
EXTENDS Integers, Sequences, FiniteSets, TLC

(* ------------------------------ bounds --------------------------------- *)
\* number of exchanges (calls of chat_with_fallback) in one behaviour
MaxExchanges == 1
\* largest number of tool calls a backend response carries
MaxToolCalls == 2

(* ----------------------------- constants ------------------------------- *)
NoneVal == "None"
SYSTEM_MESSAGE == "SYSTEM_MESSAGE"
\* the canonical backend order of chat_with_fallback
all_models == <<"openai", "claude", "gemini">>
\* values of preferred_model: the three backends and one unknown name
PreferredModels == {"openai", "claude", "gemini", "mistral"}
\* the fixed degraded message of chat_with_fallback
error_response == "I apologize, but I'm experiencing technical difficulties."
\* default of log_interaction's model parameter
DefaultLogModel == "gpt-4o-mini"

\* the user message of an exchange and the caller's conversation history
UserMessages == {"user_message"}
Histories ==
    { << [role |-> "user", content |-> "earlier question",
          tool_call_id |-> NoneVal, tool_calls |-> <<>>],
         [role |-> "assistant", content |-> "earlier answer",
          tool_call_id |-> NoneVal, tool_calls |-> <<>>] >> }

\* error texts, str(e) of the exceptions the code can meet
ApiErrors(model) ==
    CASE model = "openai" -> {"openai API error", ""}
      [] model = "claude" -> {"claude API error", ""}
      [] OTHER            -> {"gemini API error", ""}
ClaudeNotInitialized == "Claude client not initialized"
GeminiNotConfigured == "Gemini not configured"
JSONDecodeError == "JSONDecodeError: Expecting value"
ArgumentTypeError == "TypeError: unexpected or missing keyword argument"
LenOfNoneTypeError == "TypeError: object of type 'NoneType' has no len()"
EmbeddingApiError == "embedding API error"

\* answers of the backends; the Claude answer is longer than 500 characters
OpenAIContents == {"openai answer", NoneVal}
ClaudeTexts == {"claude answer longer than 500 characters"}
GeminiTexts == {"gemini answer"}

(* ------------------------- tool registry ------------------------------- *)
\* names dispatched by execute_tool (tools.py) and execute_tool_call (app.py)
RegisteredTools ==
    {"get_ticket_price", "get_flight_status", "lookup_booking",
     "process_refund", "get_destination_image", "search_airline_policies"}

\* parameters of the handlers called with **args
RequiredParams(tool_name) ==
    CASE tool_name = "get_ticket_price"  -> {"destination_city"}
      [] tool_name = "get_flight_status" -> {"flight_number"}
      [] tool_name = "lookup_booking"    -> {"pnr"}
      [] tool_name = "process_refund"    -> {"pnr", "reason"}
      [] OTHER                           -> {}

OptionalParams(tool_name) ==
    CASE tool_name = "get_ticket_price" -> {"travel_class"}
      [] OTHER                          -> {}

\* a tool_arguments string: json says whether json.loads parses it, keys are
\* the keys of the parsed object
Args(isJson, keys) == [json |-> isJson, keys |-> keys]
NotJson == Args(FALSE, {})

\* the (name, arguments) pairs a backend response may carry
ToolCallChoices ==
    { [name |-> "lookup_booking",          arguments |-> Args(TRUE, {"pnr"})],
      [name |-> "lookup_booking",          arguments |-> Args(TRUE, {})],
      [name |-> "search_airline_policies", arguments |-> Args(TRUE, {"query"})],
      [name |-> "get_destination_image",   arguments |-> NotJson],
      [name |-> "nonexistent_tool",        arguments |-> Args(TRUE, {})],
      [name |-> "nonexistent_tool",        arguments |-> NotJson] }

\* backend-assigned identifier of the i-th tool call of a response
CallId(i) == 100 - i

Returned(text) == [raised |-> FALSE, value |-> text]
Raised(err) == [raised |-> TRUE, value |-> err]

\* outcomes of the external API a tool handler calls (image / embedding)
ToolEnvs == {"ok", "fail"}

\* tools.py execute_tool
execute_tool(tool_name, tool_arguments, env) ==
    IF ~tool_arguments.json THEN Raised(JSONDecodeError)
    ELSE IF tool_name \in {"get_ticket_price", "get_flight_status",
                           "lookup_booking", "process_refund"}
         THEN IF /\ RequiredParams(tool_name) \subseteq tool_arguments.keys
                 /\ tool_arguments.keys \subseteq
                       RequiredParams(tool_name) \cup OptionalParams(tool_name)
              THEN Returned("result of " \o tool_name)
              ELSE Raised(ArgumentTypeError)
    ELSE IF tool_name = "get_destination_image"
         THEN IF env = "ok" /\ "city" \in tool_arguments.keys
              THEN Returned("I've generated a beautiful travel image")
              ELSE Returned("Sorry, I couldn't generate an image")
    ELSE Returned("Error: Unknown tool '" \o tool_name \o "'")

\* knowledge_base.py search_airline_policies, as seen by its caller: the
\* embedding request may raise, otherwise a policy text or the not-found text
search_airline_policies(env) ==
    IF env = "ok" THEN Returned("Here's the relevant policy information")
    ELSE Raised(EmbeddingApiError)

\* app.py execute_tool_call
execute_tool_call(tool_name, tool_arguments, env) ==
    IF tool_name = "search_airline_policies"
    THEN IF ~tool_arguments.json THEN Raised(JSONDecodeError)
         ELSE search_airline_policies(env)
    ELSE execute_tool(tool_name, tool_arguments, env)


(* --------------------------- knowledge_base.py ------------------------- *)
\* largest top_k passed to search_knowledge_base
MaxTopK == 3
\* number of times the application is started
MaxStartups == 3
\* top_k of search_airline_policies, and the default of search_knowledge_base
DefaultTopK == 3

\* embedding vectors, two-dimensional and never zero
Vectors == {<<1, 0>>, <<0, 1>>, <<1, 3>>}
NoVector == <<0, 0>>

\* a document; embedded says whether the dict has the key 'embedding'
Document(id, title, embedded, vector) ==
    [id |-> id, title |-> title, content |-> "content of " \o id,
     embedded |-> embedded, embedding |-> vector]

\* knowledge_base.py:18-258, the first four documents of the literal catalog
Catalog ==
    << Document("bag_001", "Carry-on Baggage Allowance", FALSE, NoVector),
       Document("bag_002", "Checked Baggage Allowance", FALSE, NoVector),
       Document("bag_003", "Prohibited Items", FALSE, NoVector),
       Document("checkin_001", "Online Check-in", FALSE, NoVector) >>

\* documents with the embeddings vectors[i]
WithEmbeddings(docs, vectors) ==
    [i \in DOMAIN docs |->
        Document(docs[i].id, docs[i].title, TRUE, vectors[i])]

\* the file knowledge_base.json: absent, not parseable, or a list of documents
AbsentSnapshot == [state |-> "absent", docs |-> <<>>]
MalformedSnapshot == [state |-> "malformed", docs |-> <<>>]
ParsedSnapshot(docs) == [state |-> "ok", docs |-> docs]

\* the files a startup may find
InitialSnapshots ==
    { AbsentSnapshot, MalformedSnapshot,
      ParsedSnapshot(<<>>),
      ParsedSnapshot(Catalog),
      ParsedSnapshot(WithEmbeddings(Catalog, <<<<1, 0>>, <<0, 1>>, <<1, 3>>, <<1, 0>>>>)),
      ParsedSnapshot(<<WithEmbeddings(Catalog, <<<<1, 0>>, <<1, 0>>, <<1, 0>>, <<1, 0>>>>)[1],
                       Catalog[2]>>) }

\* get_embedding: the vector returned, or the exception of the API
Embedded(vector) == [raised |-> FALSE, vector |-> vector]
EmbeddingFailed == [raised |-> TRUE, vector |-> NoVector]
EmbeddingOutcomes == {Embedded(vector) : vector \in Vectors} \cup {EmbeddingFailed}
\* get_embedding was not called
NotAsked == [raised |-> FALSE, vector |-> NoVector]

\* knowledge_base.py:291-297, cosine_similarity: dot / (norm * norm), kept as
\* the pair of the dot product and the squared product of the norms
Dot(a, b) == a[1] * b[1] + a[2] * b[2]
cosine_similarity(vec1, vec2) ==
    [dot |-> Dot(vec1, vec2), norms2 |-> Dot(vec1, vec1) * Dot(vec2, vec2)]

\* comparisons of two similarities s.dot / sqrt(s.norms2)
ScoreGreater(s, t) ==
    IF s.dot >= 0 /\ t.dot >= 0 THEN s.dot * s.dot * t.norms2 > t.dot * t.dot * s.norms2
    ELSE IF s.dot >= 0 THEN TRUE
    ELSE IF t.dot >= 0 THEN FALSE
    ELSE s.dot * s.dot * t.norms2 < t.dot * t.dot * s.norms2
ScoreEqual(s, t) == ~ScoreGreater(s, t) /\ ~ScoreGreater(t, s)

\* knowledge_base.py:331 and 336, score >= 0.3
AtLeastThreshold(score) == score.dot >= 0 /\ 100 * score.dot * score.dot >= 9 * score.norms2

\* mutant of InsertDescending: the new entry goes before the entries of equal score
RECURSIVE InsertDescending_BeforeEqual(_, _)
InsertDescending_BeforeEqual(sorted, entry) ==
    IF sorted = <<>> THEN <<entry>>
    ELSE IF ScoreGreater(Head(sorted).score, entry.score)
         THEN <<Head(sorted)>> \o InsertDescending_BeforeEqual(Tail(sorted), entry)
         ELSE <<entry>> \o sorted

\* knowledge_base.py:318, results.sort(key = score, reverse = True): a stable
\* sort, entries of equal score keep their order
RECURSIVE InsertDescending(_, _)
InsertDescending(sorted, entry) ==
    IF sorted = <<>> THEN <<entry>>
    ELSE IF ScoreGreater(entry.score, Head(sorted).score)
         THEN <<entry>> \o sorted
         ELSE <<Head(sorted)>> \o InsertDescending(Tail(sorted), entry)

RECURSIVE SortDescending(_)
SortDescending(results) ==
    IF results = <<>> THEN <<>>
    ELSE InsertDescending(SortDescending(SubSeq(results, 1, Len(results) - 1)),
                          results[Len(results)])

\* results[:top_k] for top_k >= 0
Take(seq, k) == SubSeq(seq, 1, IF k < Len(seq) THEN k ELSE Len(seq))

SearchReturned(results, embedded_query) ==
    [raised |-> FALSE, error |-> NoneVal, results |-> results,
     embedded_query |-> embedded_query]
SearchRaised(error, embedded_query) ==
    [raised |-> TRUE, error |-> error, results |-> <<>>,
     embedded_query |-> embedded_query]
KeyErrorEmbedding == "KeyError: 'embedding'"

\* mutant of search_knowledge_base: the query is embedded before the
\* readiness test
search_knowledge_base_EmbedsFirst(kb, query_embedding, top_k) ==
    IF query_embedding.raised THEN SearchRaised(EmbeddingApiError, TRUE)
    ELSE IF kb = <<>> \/ ~kb[1].embedded THEN SearchReturned(<<>>, TRUE)
    ELSE IF \E i \in DOMAIN kb : ~kb[i].embedded THEN SearchRaised(KeyErrorEmbedding, TRUE)
    ELSE SearchReturned(
             Take(SortDescending(
                      [i \in DOMAIN kb |->
                          [document |-> kb[i],
                           score |-> cosine_similarity(query_embedding.vector,
                                                       kb[i].embedding)]]),
                  top_k),
             TRUE)

\* knowledge_base.py:300-319, search_knowledge_base; query_embedding is the
\* outcome of get_embedding(query), asked for only after the readiness test
search_knowledge_base(kb, query_embedding, top_k) ==
    IF kb = <<>> \/ ~kb[1].embedded THEN SearchReturned(<<>>, FALSE)
    ELSE IF query_embedding.raised THEN SearchRaised(EmbeddingApiError, TRUE)
    ELSE IF \E i \in DOMAIN kb : ~kb[i].embedded THEN SearchRaised(KeyErrorEmbedding, TRUE)
    ELSE SearchReturned(
             Take(SortDescending(
                      [i \in DOMAIN kb |->
                          [document |-> kb[i],
                           score |-> cosine_similarity(query_embedding.vector,
                                                       kb[i].embedding)]]),
                  top_k),
             TRUE)

NotFoundMessage ==
    "No relevant policy information found for this query. Please contact ERWIQ Airlines customer care at 1800-ERWIQ-AIR for assistance."
PolicyHeader == "Here's the relevant policy information:\n\n"
Block(doc) == "**" \o doc.title \o "**\n" \o doc.content \o "\n\n"

\* mutant of Blocks: a block for every result
RECURSIVE Blocks_Unfiltered(_)
Blocks_Unfiltered(results) ==
    IF results = <<>> THEN ""
    ELSE Block(Head(results).document) \o Blocks_Unfiltered(Tail(results))

\* knowledge_base.py:335-338, the blocks of the results with score >= 0.3
RECURSIVE Blocks(_)
Blocks(results) ==
    IF results = <<>> THEN ""
    ELSE (IF AtLeastThreshold(Head(results).score) THEN Block(Head(results).document)
          ELSE "") \o Blocks(Tail(results))

\* knowledge_base.py:322-340, search_airline_policies, given the result of
\* search_knowledge_base(query, openai_client, top_k=3)
PolicyText(found) ==
    IF found.raised THEN Raised(found.error)
    ELSE IF found.results = <<>> \/ ~AtLeastThreshold(found.results[1].score)
         THEN Returned(NotFoundMessage)
    ELSE Returned(PolicyHeader \o Blocks(found.results))

\* the vectors the embedding API returns for the documents of one
\* embed_knowledge_base run
EmbeddingRuns ==
    { <<<<1, 0>>, <<0, 1>>, <<1, 3>>, <<1, 0>>>>,
      <<<<0, 1>>, <<0, 1>>, <<0, 1>>, <<0, 1>>>>,
      <<<<1, 3>>, <<1, 0>>, <<1, 0>>, <<0, 1>>>> }
\* the document at which the embedding API fails during a run: none, or the second
FailAt == {0, 2}

\* knowledge_base.py:274-288, embed_knowledge_base: the documents are embedded
\* in place and in order; fail is the document whose get_embedding raises
\* (0: none), the documents before it keep their new embedding
embed_knowledge_base(kb, vectors, fail) ==
    [raised |-> fail \in DOMAIN kb,
     error |-> IF fail \in DOMAIN kb THEN EmbeddingApiError ELSE NoneVal,
     embed_calls |-> IF fail \in DOMAIN kb THEN fail ELSE Len(kb),
     kb |-> [i \in DOMAIN kb |->
                IF fail \in DOMAIN kb /\ i >= fail THEN kb[i]
                ELSE Document(kb[i].id, kb[i].title, TRUE, vectors[i])]]

\* knowledge_base.py:364-378, save_knowledge_base: the file holds the documents
save_knowledge_base(kb) == ParsedSnapshot(kb)

\* knowledge_base.py:381-392, load_knowledge_base: only FileNotFoundError is
\* caught; json.load raises on a file that does not parse
load_knowledge_base(file, kb) ==
    IF file.state = "ok"
    THEN [raised |-> FALSE, error |-> NoneVal, loaded |-> TRUE, kb |-> file.docs]
    ELSE IF file.state = "absent"
    THEN [raised |-> FALSE, error |-> NoneVal, loaded |-> FALSE, kb |-> Catalog]
    ELSE [raised |-> TRUE, error |-> JSONDecodeError, loaded |-> FALSE, kb |-> kb]

\* the last call of a function of knowledge_base.py and its outcome
KbCall(fn) ==
    [fn |-> fn, raised |-> FALSE, error |-> NoneVal, loaded |-> FALSE,
     results |-> <<>>, text |-> NoneVal, embedded_query |-> FALSE,
     embed_calls |-> 0, query |-> NotAsked, top_k |-> 0]
NoCall == KbCall("none")

(* ------------------------- tools.py process_refund --------------------- *)
\* config.py:77-128, BOOKINGS_DB: the fields process_refund reads
Booking(passenger, class, status) ==
    [passenger |-> passenger, class |-> class, status |-> status]
Bookings ==
    [pnr \in {"ABC123", "XYZ789", "DEF456", "PQR999", "LMN555"} |->
        CASE pnr = "ABC123" -> Booking("Rahul Sharma", "Business", "Confirmed")
          [] pnr = "XYZ789" -> Booking("Priya Patel", "Economy", "Confirmed")
          [] pnr = "DEF456" -> Booking("Amit Kumar", "First", "Cancelled - Refund Pending")
          [] pnr = "PQR999" -> Booking("Sneha Reddy", "Economy", "Confirmed")
          [] OTHER          -> Booking("Vikram Singh", "Business", "Confirmed")]

\* the pnr arguments of process_refund and what pnr.upper().strip() makes of them
PnrArguments == {"ABC123", " xyz789 ", "DEF456", "def456", "NOPE00"}
UpperStrip(pnr) ==
    CASE pnr = " xyz789 " -> "XYZ789"
      [] pnr = "def456"   -> "DEF456"
      [] OTHER            -> pnr
Reasons == {"change of plans", "medical"}

\* tools.py:83, "Cancelled" in booking['status'], over the statuses of the table
ContainsCancelled(status) == status \in {"Cancelled - Refund Pending"}

\* tools.py:87, REF followed by random.randint(100000, 999999)
RefundRefs == {"REF100000", "REF999999"}

\* tools.py:90-92, int(base_price * class_multiplier.get(class, 1))
RefundAmount(class) ==
    CASE class = "Economy"  -> 4999
      [] class = "Business" -> 12497
      [] class = "First"    -> 24995
      [] OTHER              -> 4999

NoRefunds == [ref \in {} |-> NoneVal]
\* tools.py:95-100, refund_requests[refund_ref] = {...}
Stored(store, ref, request) ==
    [r \in DOMAIN store \cup {ref} |-> IF r = ref THEN request ELSE store[r]]

\* tools.py:71-109, process_refund: the text returned and refund_requests after
\* the call; ref is the reference drawn at line 87
process_refund(pnr, reason, ref, bookings, store) ==
    LET key == UpperStrip(pnr) IN
    IF key \notin DOMAIN bookings
    THEN [text |-> "Cannot process refund: Booking " \o key \o " not found.",
          refund_requests |-> store]
    ELSE IF ContainsCancelled(bookings[key].status)
    THEN [text |-> "Booking " \o key \o " is already cancelled. Refund is being processed.",
          refund_requests |-> store]
    ELSE [text |-> "Refund Request Processed: " \o ref,
          refund_requests |->
              Stored(store, ref,
                     [pnr |-> key, reason |-> reason,
                      amount |-> RefundAmount(bookings[key].class),
                      status |-> "Approved"])]

\* the last call of process_refund: its arguments, refund_requests before it
\* and the text it returned
RefundCall(pnr, reason, before, text) ==
    [pnr |-> pnr, reason |-> reason, before |-> before, text |-> text]
NoRefundCall == RefundCall(NoneVal, NoneVal, NoRefunds, NoneVal)

(* ----------------------- utils.py send_notification -------------------- *)
\* largest number of registered callbacks
MaxCallbacks == 2
\* largest number of notifications sent
MaxNotifications == 2

\* a registered callback: called with a notification it returns or raises
Callback(id, raises) == [id |-> id, raises |-> raises]
Callbacks == {Callback(id, raises) : id \in {"cb1", "cb2"}, raises \in BOOLEAN}

Notification(title, message, level) ==
    [title |-> title, message |-> message, level |-> level]

\* one call callback(notification) of the loop at utils.py:228-232
Called(callback, notification) ==
    [callback |-> callback.id, notification |-> notification, raised |-> callback.raises]

\* what a send_notification call did: the callbacks registered when it ran,
\* the calls it made in order, and whether an exception left it
Deliveries(registered, calls, raised) ==
    [registered |-> registered, calls |-> calls, raised |-> raised]
NoDeliveries == Deliveries(<<>>, <<>>, FALSE)

\* mutant of Deliver: the exception of a callback ends the loop and leaves
\* send_notification
RECURSIVE Deliver_StopsAtRaise(_, _, _)
Deliver_StopsAtRaise(registered, callbacks, notification) ==
    IF callbacks = <<>> THEN Deliveries(registered, <<>>, FALSE)
    ELSE IF Head(callbacks).raises
    THEN Deliveries(registered, <<Called(Head(callbacks), notification)>>, TRUE)
    ELSE LET rest == Deliver_StopsAtRaise(registered, Tail(callbacks), notification) IN
         Deliveries(registered,
                    <<Called(Head(callbacks), notification)>> \o rest.calls, rest.raised)

\* utils.py:228-232, for callback in notification_callbacks: try callback(...)
\* except Exception: print
RECURSIVE Deliver(_, _, _)
Deliver(registered, callbacks, notification) ==
    IF callbacks = <<>> THEN Deliveries(registered, <<>>, FALSE)
    ELSE LET rest == Deliver(registered, Tail(callbacks), notification) IN
         Deliveries(registered,
                    <<Called(Head(callbacks), notification)>> \o rest.calls, rest.raised)

(* ------------------------------ state ---------------------------------- *)
VARIABLES
    pc,              \* position of the running exchange
    exchanges,       \* number of exchanges started
    claude_client,   \* app.py:45-47, TRUE when ANTHROPIC_API_KEY is set
    GOOGLE_API_KEY,  \* config.py, TRUE when the key is set
    audit_logs,      \* utils.py audit_logs
    analytics_data,  \* utils.py analytics_data
    user_message,    \* arguments of chat_with_fallback
    history,
    preferred_model,
    models_to_try,   \* locals of chat_with_fallback
    idx,             \* position of the for loop over models_to_try
    last_error,
    tools_used,
    ret,             \* value returned by chat_with_fallback, NoReturn before
    messages,        \* locals of chat_with_tools
    cwt_tools_used,
    tool_calls,      \* response_message.tool_calls of the first response
    tc,              \* position of the for loop over tool_calls
    attempts,        \* history: chat functions entered in this exchange
    failed,          \* history: backends whose attempt ended in the except branch
    returned_ok,     \* history: what the chat functions returned
    responses,       \* history: responses of the OpenAI backend
    log_start,       \* history: Len(audit_logs) when the exchange started
    caller_history,  \* history: the turns of the caller's list when the exchange started
    requests,        \* history: requests sent to backend APIs
    invoked,         \* history: calls of execute_tool_call
    console,         \* history: lines printed by chat_with_fallback
    sent,            \* history: notifications passed to send_notification
    last_raised,          \* history: the backend and str(e) of the last exception caught
    knowledge_base,  \* knowledge_base.py knowledge_base
    snapshot,        \* the file knowledge_base.json
    kb_call,         \* history: the last call of a knowledge_base.py function
    startup_pc,      \* position of the module startup of app.py:57-70
    starts,          \* history: one record per startup of app.py
    BOOKINGS_DB,     \* config.py BOOKINGS_DB
    refund_requests, \* tools.py refund_requests
    refund_call,     \* history: the last call of process_refund
    notification_callbacks,  \* utils.py notification_callbacks
    deliveries       \* history: the callback calls of the last send_notification

config == <<claude_client, GOOGLE_API_KEY>>
sinks == <<audit_logs, analytics_data>>
args == <<user_message, history, preferred_model>>
cwf == <<models_to_try, idx, last_error, tools_used, ret>>
cwt == <<messages, cwt_tools_used, tool_calls, tc>>
hist == <<attempts, failed, returned_ok, responses, log_start, caller_history, requests, invoked,
          console, sent, last_raised>>
chat_vars == <<pc, exchanges, config, sinks, args, cwf, cwt, hist>>
kb_vars == <<knowledge_base, snapshot, kb_call, startup_pc, starts>>
tool_vars == <<BOOKINGS_DB, refund_requests, refund_call>>
note_vars == <<notification_callbacks, deliveries>>
side_vars == <<tool_vars, note_vars>>
vars == <<chat_vars, kb_vars, side_vars>>

Msg(role, content) ==
    [role |-> role, content |-> content, tool_call_id |-> NoneVal, tool_calls |-> <<>>]

Contains(seq, x) == \E i \in DOMAIN seq : seq[i] = x
Count(seq, x) == Cardinality({i \in DOMAIN seq : seq[i] = x})

\* mutant of AddFallbacks: the "not in models_to_try" test is left out
AddFallbacks_NoMembershipTest(to_try, rest) == to_try \o rest

\* app.py:203-209, the fallback sequence
RECURSIVE AddFallbacks(_, _)
AddFallbacks(to_try, rest) ==
    IF rest = <<>> THEN to_try
    ELSE AddFallbacks(IF Contains(to_try, Head(rest)) THEN to_try
                      ELSE Append(to_try, Head(rest)),
                      Tail(rest))

\* mutant of BuildModelsToTry: the fallbacks are listed in another order
BuildModelsToTry_OtherOrder(preferred) ==
    AddFallbacks(<<preferred>>, <<"gemini", "claude", "openai">>)

BuildModelsToTry(preferred) == AddFallbacks(<<preferred>>, all_models)

(* ------------------------------ utils.py ------------------------------- *)
\* utils.py:34, assistant_response[:500] + "..." when longer than 500
Truncate(text) ==
    IF text \in ClaudeTexts THEN "claude answer longer than 5..." ELSE text

Bump(counts, key) ==
    IF key \in DOMAIN counts THEN [counts EXCEPT ![key] = @ + 1]
    ELSE counts @@ (key :> 1)

\* mutant of BumpAll: only the first name of tools_used is counted
BumpAll_FirstOnly(counts, keys) ==
    IF keys = <<>> THEN counts ELSE Bump(counts, Head(keys))

RECURSIVE BumpAll(_, _)
BumpAll(counts, keys) ==
    IF keys = <<>> THEN counts ELSE BumpAll(Bump(counts, Head(keys)), Tail(keys))

\* utils.py:31-39; an omitted tools_used (None) is passed as <<>>, which
\* "tools_used or []" makes of it, and an omitted error is NoneVal
LogEntry(um, response, tu, model, error) ==
    [user_message |-> um,
     assistant_response |-> Truncate(response),
     tools_used |-> tu,
     model |-> model,
     error |-> error]

\* mutant of UpdatedAnalytics: a record with an error is not counted as a query
UpdatedAnalytics_ErrorNotCounted(a, tu, model, error) ==
    [total_queries |-> IF error = NoneVal THEN a.total_queries + 1 ELSE a.total_queries,
     model_usage |-> Bump(a.model_usage, model),
     tool_calls |-> BumpAll(a.tool_calls, tu),
     errors |-> IF error \notin {NoneVal, ""} THEN a.errors + 1 ELSE a.errors]

\* utils.py:44-56
UpdatedAnalytics(a, tu, model, error) ==
    [total_queries |-> a.total_queries + 1,
     model_usage |-> Bump(a.model_usage, model),
     tool_calls |-> BumpAll(a.tool_calls, tu),
     errors |-> IF error \notin {NoneVal, ""} THEN a.errors + 1 ELSE a.errors]

\* utils.py log_interaction: len(assistant_response) raises on None
log_interaction_raises(response) == response = NoneVal

log_interaction(um, response, tu, model, error) ==
    /\ audit_logs' = Append(audit_logs, LogEntry(um, response, tu, model, error))
    /\ analytics_data' = UpdatedAnalytics(analytics_data, tu, model, error)

\* mutant of send_notification: the notification is dropped
send_notification_Dropped(title, message, level) ==
    /\ sent' = sent
    /\ deliveries' = deliveries

\* utils.py send_notification: the notification built at lines 211-216
\* and printed at line 226, then the loop over the callbacks
send_notification(title, message, level) ==
    /\ sent' = Append(sent, Notification(title, message, level))
    /\ deliveries' = Deliver(notification_callbacks, notification_callbacks,
                             Notification(title, message, level))

EmptyCounts == [k \in {} |-> 0]

Return(response, model_used, tu) ==
    [response |-> response, model_used |-> model_used, tools_used |-> tu]
NoReturn == Return(NoneVal, NoneVal, <<>>)

\* app.py:246-247, the exception the except branch caught last
Caught(model, err) == [model |-> model, error |-> err]
NoRaise == Caught(NoneVal, NoneVal)

\* the module state of tools.py and of the notification system of utils.py
\* after import: no refund request, no callback
SideIdle ==
    /\ BOOKINGS_DB = Bookings
    /\ refund_requests = NoRefunds
    /\ refund_call = NoRefundCall
    /\ notification_callbacks = <<>>
    /\ deliveries = NoDeliveries

\* the module state of knowledge_base.py and app.py before the startup code runs
KbNotStarted ==
    /\ knowledge_base = <<>>
    /\ kb_call = NoCall
    /\ startup_pc = "not_started"
    /\ starts = <<>>

\* no call of chat_with_fallback is in progress: its arguments and locals,
\* and the record of what the last call did, are gone
NoFrame ==
    /\ user_message = NoneVal
    /\ history = <<>>
    /\ preferred_model = NoneVal
    /\ models_to_try = <<>>
    /\ idx = 0
    /\ last_error = NoneVal
    /\ tools_used = <<>>
    /\ ret = NoReturn
    /\ messages = <<>>
    /\ cwt_tools_used = <<>>
    /\ tool_calls = <<>>
    /\ tc = 0
    /\ attempts = <<>>
    /\ failed = <<>>
    /\ returned_ok = <<>>
    /\ responses = <<>>
    /\ log_start = 0
    /\ caller_history = <<>>
    /\ requests = <<>>
    /\ invoked = <<>>
    /\ console = <<>>
    /\ sent = <<>>
    /\ last_raised = NoRaise

\* app.py:258, the call returns: its frame and the record of the call go
ClearFrame ==
    /\ user_message' = NoneVal
    /\ history' = <<>>
    /\ preferred_model' = NoneVal
    /\ models_to_try' = <<>>
    /\ idx' = 0
    /\ last_error' = NoneVal
    /\ tools_used' = <<>>
    /\ ret' = NoReturn
    /\ messages' = <<>>
    /\ cwt_tools_used' = <<>>
    /\ tool_calls' = <<>>
    /\ tc' = 0
    /\ attempts' = <<>>
    /\ failed' = <<>>
    /\ returned_ok' = <<>>
    /\ responses' = <<>>
    /\ log_start' = 0
    /\ caller_history' = <<>>
    /\ requests' = <<>>
    /\ invoked' = <<>>
    /\ console' = <<>>
    /\ sent' = <<>>
    /\ last_raised' = NoRaise

\* no exchange has started
ChatIdle ==
    /\ pc = "idle"
    /\ exchanges = 0
    /\ audit_logs = <<>>
    /\ analytics_data = [total_queries |-> 0, model_usage |-> EmptyCounts,
                         tool_calls |-> EmptyCounts, errors |-> 0]
    /\ NoFrame

Init ==
    /\ ChatIdle
    /\ claude_client \in BOOLEAN
    /\ GOOGLE_API_KEY \in BOOLEAN
    /\ KbNotStarted
    /\ snapshot = AbsentSnapshot
    /\ SideIdle

(* --------------------------- chat_with_fallback ------------------------ *)
Line(event, model) == [event |-> event, model |-> model]
Request(model, msgs, tools) == [model |-> model, messages |-> msgs, tools |-> tools]

\* app.py:202-212, a new exchange: the caller's arguments, the fallback
\* sequence, last_error and tools_used
StartExchange ==
    /\ pc = "idle"
    /\ exchanges < MaxExchanges
    /\ exchanges' = exchanges + 1
    /\ user_message' \in UserMessages
    /\ history' \in Histories
    /\ preferred_model' \in PreferredModels
    /\ models_to_try' = BuildModelsToTry(preferred_model')
    /\ idx' = 1
    /\ last_error' = NoneVal
    /\ tools_used' = <<>>
    /\ ret' = NoReturn
    /\ messages' = <<>>
    /\ cwt_tools_used' = <<>>
    /\ tool_calls' = <<>>
    /\ tc' = 0
    /\ attempts' = <<>>
    /\ failed' = <<>>
    /\ last_raised' = NoRaise
    /\ returned_ok' = <<>>
    /\ responses' = <<>>
    /\ log_start' = Len(audit_logs)
    /\ caller_history' = history'
    /\ requests' = <<>>
    /\ invoked' = <<>>
    /\ console' = <<>>
    /\ sent' = <<>>
    /\ pc' = "loop"
    /\ UNCHANGED <<kb_vars, side_vars, config, sinks>>

\* mutant of ExceptBranch: the failure is also handed to log_interaction
ExceptBranch_Logged(model, err, printed) ==
    /\ last_error' = err
    /\ console' = Append(printed, Line("failed", model))
    /\ failed' = Append(failed, model)
    /\ last_raised' = Caught(model, err)
    /\ idx' = idx + 1
    /\ pc' = "loop"
    /\ log_interaction(user_message, err, <<>>, model, err)
    /\ UNCHANGED <<ret, sent>>

\* mutant of ExceptBranch: last_error keeps the first error of the exchange
ExceptBranch_KeepsFirstError(model, err, printed) ==
    /\ last_error' = IF last_error = NoneVal THEN err ELSE last_error
    /\ console' = Append(printed, Line("failed", model))
    /\ failed' = Append(failed, model)
    /\ last_raised' = Caught(model, err)
    /\ idx' = idx + 1
    /\ pc' = "loop"
    /\ UNCHANGED <<sinks, ret, sent>>

\* app.py:244-247, the except branch of the attempt on model
ExceptBranch(model, err, printed) ==
    /\ last_error' = err
    /\ console' = Append(printed, Line("failed", model))
    /\ failed' = Append(failed, model)
    /\ last_raised' = Caught(model, err)
    /\ idx' = idx + 1
    /\ pc' = "loop"
    /\ UNCHANGED <<sinks, ret, sent>>

\* app.py:220-242, the chat function of model returned (response, tu):
\* tools_used is assigned, the interaction is logged and the triple returned;
\* an exception of log_interaction is caught by the same except branch
AfterChatReturned(model, response, tu, printed) ==
    /\ tools_used' = tu
    /\ returned_ok' = Append(returned_ok, Return(response, model, tu))
    /\ IF log_interaction_raises(response)
       THEN ExceptBranch(model, LenOfNoneTypeError, printed)
       ELSE /\ log_interaction(user_message, response, tu, model, NoneVal)
            /\ console' = Append(printed, Line("responded", model))
            /\ ret' = Return(response, model, tu)
            /\ pc' = "returned"
            /\ UNCHANGED <<idx, last_error, failed, last_raised, sent>>

\* the chat function of model raised err
AfterChatRaised(model, err, printed) ==
    /\ ExceptBranch(model, err, printed)
    /\ UNCHANGED <<tools_used, returned_ok>>

CurrentModel == models_to_try[idx]

\* mutant of TryOpenAI: the user turn is appended to the list passed in
TryOpenAI_ExtendsHistory ==
    /\ pc = "loop"
    /\ idx <= Len(models_to_try)
    /\ CurrentModel = "openai"
    /\ console' = Append(console, Line("trying", "openai"))
    /\ attempts' = Append(attempts, "openai")
    /\ messages' = <<Msg("system", SYSTEM_MESSAGE)>> \o history
                      \o <<Msg("user", user_message)>>
    /\ history' = history \o <<Msg("user", user_message)>>
    /\ cwt_tools_used' = <<>>
    /\ tool_calls' = <<>>
    /\ tc' = 0
    /\ pc' = "cwt_request1"
    /\ UNCHANGED <<kb_vars, side_vars, exchanges, config, sinks, user_message, preferred_model, cwf, failed, last_raised, returned_ok,
                   responses, log_start, caller_history, requests, invoked, sent>>

\* app.py:219-220 and 149-154: the loop reaches openai and enters
\* chat_with_tools, which builds its messages
TryOpenAI ==
    /\ pc = "loop"
    /\ idx <= Len(models_to_try)
    /\ CurrentModel = "openai"
    /\ console' = Append(console, Line("trying", "openai"))
    /\ attempts' = Append(attempts, "openai")
    /\ messages' = <<Msg("system", SYSTEM_MESSAGE)>> \o history
                      \o <<Msg("user", user_message)>>
    /\ cwt_tools_used' = <<>>
    /\ tool_calls' = <<>>
    /\ tc' = 0
    /\ pc' = "cwt_request1"
    /\ UNCHANGED <<kb_vars, side_vars, exchanges, config, sinks, args, cwf, failed, last_raised, returned_ok,
                   responses, log_start, caller_history, requests, invoked, sent>>

\* mutant of TryClaude: tools_used is not reset to [] after chat_claude
TryClaude_KeepsToolsUsed ==
    /\ pc = "loop"
    /\ idx <= Len(models_to_try)
    /\ CurrentModel = "claude"
    /\ attempts' = Append(attempts, "claude")
    /\ LET printed == Append(console, Line("trying", "claude")) IN
       IF ~claude_client
       THEN /\ AfterChatRaised("claude", ClaudeNotInitialized, printed)
            /\ UNCHANGED requests
       ELSE /\ requests' = Append(requests,
                  Request("claude", history \o <<Msg("user", user_message)>>, FALSE))
            /\ \/ \E err \in ApiErrors("claude") :
                     AfterChatRaised("claude", err, printed)
               \/ \E text \in ClaudeTexts :
                     AfterChatReturned("claude", text, tools_used, printed)
    /\ UNCHANGED <<kb_vars, side_vars, exchanges, config, args, models_to_try, cwt, responses,
                   log_start, caller_history, invoked>>

\* app.py:221-223 and 93-108, chat_claude
TryClaude ==
    /\ pc = "loop"
    /\ idx <= Len(models_to_try)
    /\ CurrentModel = "claude"
    /\ attempts' = Append(attempts, "claude")
    /\ LET printed == Append(console, Line("trying", "claude")) IN
       IF ~claude_client
       THEN /\ AfterChatRaised("claude", ClaudeNotInitialized, printed)
            /\ UNCHANGED requests
       ELSE /\ requests' = Append(requests,
                  Request("claude", history \o <<Msg("user", user_message)>>, FALSE))
            /\ \/ \E err \in ApiErrors("claude") :
                     AfterChatRaised("claude", err, printed)
               \/ \E text \in ClaudeTexts :
                     AfterChatReturned("claude", text, <<>>, printed)
    /\ UNCHANGED <<kb_vars, side_vars, exchanges, config, args, models_to_try, cwt, responses,
                   log_start, caller_history, invoked>>

\* app.py:224-226 and 111-130, chat_gemini
TryGemini ==
    /\ pc = "loop"
    /\ idx <= Len(models_to_try)
    /\ CurrentModel = "gemini"
    /\ attempts' = Append(attempts, "gemini")
    /\ LET printed == Append(console, Line("trying", "gemini")) IN
       IF ~GOOGLE_API_KEY
       THEN /\ AfterChatRaised("gemini", GeminiNotConfigured, printed)
            /\ UNCHANGED requests
       ELSE /\ requests' = Append(requests,
                  Request("gemini", history \o <<Msg("user", user_message)>>, FALSE))
            /\ \/ \E err \in ApiErrors("gemini") :
                     AfterChatRaised("gemini", err, printed)
               \/ \E text \in GeminiTexts :
                     AfterChatReturned("gemini", text, <<>>, printed)
    /\ UNCHANGED <<kb_vars, side_vars, exchanges, config, args, models_to_try, cwt, responses,
                   log_start, caller_history, invoked>>

\* mutant of SkipUnknownModel: the loop stays on the name that is no backend
SkipUnknownModel_Stays ==
    /\ pc = "loop"
    /\ idx <= Len(models_to_try)
    /\ CurrentModel \notin {"openai", "claude", "gemini"}
    /\ UNCHANGED vars

\* app.py:227-228, a name that is no backend: continue
SkipUnknownModel ==
    /\ pc = "loop"
    /\ idx <= Len(models_to_try)
    /\ CurrentModel \notin {"openai", "claude", "gemini"}
    /\ console' = Append(console, Line("trying", CurrentModel))
    /\ idx' = idx + 1
    /\ UNCHANGED <<kb_vars, side_vars, pc, exchanges, config, sinks, args, models_to_try, last_error,
                   tools_used, ret, cwt, attempts, failed, last_raised, returned_ok, responses,
                   log_start, caller_history, requests, invoked, sent>>

\* mutant of AllModelsFailed: the text returned is the last error
AllModelsFailed_ReturnsLastError ==
    /\ pc = "loop"
    /\ idx > Len(models_to_try)
    /\ log_interaction(user_message, error_response, <<>>, DefaultLogModel, last_error)
    /\ send_notification("All Models Failed", last_error, "error")
    /\ ret' = Return(last_error, "none", <<>>)
    /\ pc' = "returned"
    /\ UNCHANGED <<kb_vars, tool_vars, notification_callbacks, exchanges, config, args, models_to_try, idx, last_error,
                   tools_used, cwt, attempts, failed, last_raised, returned_ok, responses,
                   log_start, caller_history, requests, invoked, console>>

\* app.py:249-258, every model failed
AllModelsFailed ==
    /\ pc = "loop"
    /\ idx > Len(models_to_try)
    /\ log_interaction(user_message, error_response, <<>>, DefaultLogModel, last_error)
    /\ send_notification("All Models Failed", last_error, "error")
    /\ ret' = Return(error_response, "none", <<>>)
    /\ pc' = "returned"
    /\ UNCHANGED <<kb_vars, tool_vars, notification_callbacks, exchanges, config, args, models_to_try, idx, last_error,
                   tools_used, cwt, attempts, failed, last_raised, returned_ok, responses,
                   log_start, caller_history, requests, invoked, console>>

\* the caller has the triple; the next exchange may start
ExchangeDone ==
    /\ pc = "returned"
    /\ pc' = "idle"
    /\ ClearFrame
    /\ UNCHANGED <<kb_vars, side_vars, exchanges, config, sinks>>

(* ----------------------------- chat_with_tools -------------------------- *)
\* a tool call of a response: the i-th one carries the identifier CallId(i)
ToolCall(name, arguments, id) == [name |-> name, arguments |-> arguments, id |-> id]

WithIds(choice) ==
    [i \in DOMAIN choice |-> ToolCall(choice[i].name, choice[i].arguments, CallId(i))]

ToolCallSeqs ==
    {WithIds(choice) : choice \in UNION {[1..n -> ToolCallChoices] : n \in 1..MaxToolCalls}}

\* responses of the OpenAI chat completion API: finish_reason is "tool_calls"
\* exactly when the message carries tool calls; content may be None
Response(content, calls) ==
    [finish_reason |-> IF calls = <<>> THEN "stop" ELSE "tool_calls",
     content |-> content, tool_calls |-> calls]

FirstResponses ==
    {Response(content, <<>>) : content \in OpenAIContents}
        \cup {Response(NoneVal, calls) : calls \in ToolCallSeqs}

\* the second response may ask for tools again
SecondResponses ==
    {Response(content, <<>>) : content \in OpenAIContents}
        \cup {Response(content,
                       <<ToolCall("lookup_booking", Args(TRUE, {"pnr"}), CallId(0))>>) :
                  content \in OpenAIContents}

\* mutant of RequestsTools: the tool branch is taken for every response
RequestsTools_Always(response) == TRUE

\* app.py:165
RequestsTools(response) == response.finish_reason = "tool_calls"

\* the locals of chat_with_tools die with its frame
LeaveChatWithTools ==
    /\ messages' = <<>>
    /\ cwt_tools_used' = <<>>
    /\ tool_calls' = <<>>
    /\ tc' = 0

\* app.py:156-166 and 190: the first request, with tools = all_tools
CwtFirstRequest ==
    /\ pc = "cwt_request1"
    /\ requests' = Append(requests, Request("openai", messages, TRUE))
    /\ \/ /\ \E err \in ApiErrors("openai") : AfterChatRaised("openai", err, console)
          /\ LeaveChatWithTools
          /\ UNCHANGED responses
       \/ \E response \in FirstResponses :
             /\ responses' = Append(responses, response)
             /\ IF RequestsTools(response)
                THEN /\ messages' = Append(messages,
                           [role |-> "assistant", content |-> response.content,
                            tool_call_id |-> NoneVal, tool_calls |-> response.tool_calls])
                     /\ tool_calls' = response.tool_calls
                     /\ tc' = 1
                     /\ pc' = "cwt_tools"
                     /\ UNCHANGED <<sinks, cwf, cwt_tools_used, failed, last_raised, returned_ok,
                                    console, sent>>
                ELSE /\ AfterChatReturned("openai", response.content, cwt_tools_used,
                                          console)
                     /\ LeaveChatWithTools
    /\ UNCHANGED <<kb_vars, side_vars, exchanges, config, args, models_to_try, attempts, log_start, caller_history, invoked>>

\* app.py:168-180, one iteration of the loop over the tool calls
CwtExecuteTool ==
    /\ pc = "cwt_tools"
    /\ tc <= Len(tool_calls)
    /\ LET tool_call == tool_calls[tc] IN
       /\ invoked' = Append(invoked, tool_call)
       /\ \E env \in ToolEnvs :
             LET result == execute_tool_call(tool_call.name, tool_call.arguments, env) IN
             IF result.raised
             THEN /\ AfterChatRaised("openai", result.value, console)
                  /\ LeaveChatWithTools
             ELSE /\ cwt_tools_used' = Append(cwt_tools_used, tool_call.name)
                  /\ messages' = Append(messages,
                        [role |-> "tool", content |-> result.value,
                         tool_call_id |-> tool_call.id, tool_calls |-> <<>>])
                  /\ tc' = tc + 1
                  /\ UNCHANGED <<pc, sinks, cwf, tool_calls, failed, last_raised, returned_ok,
                                 console, sent>>
    /\ UNCHANGED <<kb_vars, side_vars, exchanges, config, args, models_to_try, attempts, responses,
                   log_start, caller_history, requests>>

\* mutant of CwtFinalRequest: tool calls of the second response are serviced
CwtFinalRequest_Loop ==
    /\ pc = "cwt_tools"
    /\ tc > Len(tool_calls)
    /\ requests' = Append(requests, Request("openai", messages, FALSE))
    /\ \E final_response \in SecondResponses :
          /\ responses' = Append(responses, final_response)
          /\ IF RequestsTools(final_response)
             THEN /\ messages' = Append(messages,
                        [role |-> "assistant", content |-> final_response.content,
                         tool_call_id |-> NoneVal,
                         tool_calls |-> final_response.tool_calls])
                  /\ tool_calls' = final_response.tool_calls
                  /\ tc' = 1
                  /\ UNCHANGED <<pc, sinks, cwf, cwt_tools_used, failed, last_raised, returned_ok,
                                 console, sent>>
             ELSE /\ AfterChatReturned("openai", final_response.content,
                                       cwt_tools_used, console)
                  /\ LeaveChatWithTools
    /\ UNCHANGED <<kb_vars, side_vars, exchanges, config, args, models_to_try, attempts, log_start, caller_history, invoked>>

\* mutant of CwtFinalRequest: the second request advertises the tools again
CwtFinalRequest_WithTools ==
    /\ pc = "cwt_tools"
    /\ tc > Len(tool_calls)
    /\ requests' = Append(requests, Request("openai", messages, TRUE))
    /\ \/ /\ \E err \in ApiErrors("openai") : AfterChatRaised("openai", err, console)
          /\ UNCHANGED responses
       \/ \E final_response \in SecondResponses :
             /\ responses' = Append(responses, final_response)
             /\ AfterChatReturned("openai", final_response.content, cwt_tools_used,
                                  console)
    /\ LeaveChatWithTools
    /\ UNCHANGED <<kb_vars, side_vars, exchanges, config, args, models_to_try, attempts, log_start, caller_history, invoked>>

\* app.py:183-188, the second request, without tools, and its result
CwtFinalRequest ==
    /\ pc = "cwt_tools"
    /\ tc > Len(tool_calls)
    /\ requests' = Append(requests, Request("openai", messages, FALSE))
    /\ \/ /\ \E err \in ApiErrors("openai") : AfterChatRaised("openai", err, console)
          /\ UNCHANGED responses
       \/ \E final_response \in SecondResponses :
             /\ responses' = Append(responses, final_response)
             /\ AfterChatReturned("openai", final_response.content, cwt_tools_used,
                                  console)
    /\ LeaveChatWithTools
    /\ UNCHANGED <<kb_vars, side_vars, exchanges, config, args, models_to_try, attempts, log_start, caller_history, invoked>>

Next ==
    \/ StartExchange
    \/ TryOpenAI
    \/ CwtFirstRequest
    \/ CwtExecuteTool
    \/ CwtFinalRequest
    \/ TryClaude
    \/ TryGemini
    \/ SkipUnknownModel
    \/ AllModelsFailed
    \/ ExchangeDone

Spec == Init /\ [][Next]_vars

\* the steps of a running exchange: chat_with_fallback and the functions it
\* calls run sequentially in one thread
ExchangeStep ==
    \/ TryOpenAI
    \/ CwtFirstRequest
    \/ CwtExecuteTool
    \/ CwtFinalRequest
    \/ TryClaude
    \/ TryGemini
    \/ SkipUnknownModel
    \/ AllModelsFailed

\* every backend call and every tool invocation completes or raises, so a
\* running exchange takes its next step
SpecTermination == Init /\ [][Next]_vars /\ WF_vars(ExchangeStep)

(* ---------------------- calls of knowledge_base.py --------------------- *)
\* the module is imported; knowledge_base.json is whatever the disk holds
InitKB ==
    /\ ChatIdle
    /\ claude_client = TRUE
    /\ GOOGLE_API_KEY = TRUE
    /\ KbNotStarted
    /\ snapshot \in InitialSnapshots
    /\ SideIdle

\* knowledge_base.py:12-260, initialize_knowledge_base
KbInitialize ==
    /\ knowledge_base' = Catalog
    /\ kb_call' = KbCall("initialize_knowledge_base")
    /\ UNCHANGED <<chat_vars, side_vars, snapshot, startup_pc, starts>>

\* knowledge_base.py:381-392, load_knowledge_base
KbLoad ==
    /\ LET r == load_knowledge_base(snapshot, knowledge_base) IN
          /\ knowledge_base' = r.kb
          /\ kb_call' = [KbCall("load_knowledge_base") EXCEPT
                            !.raised = r.raised, !.error = r.error, !.loaded = r.loaded]
    /\ UNCHANGED <<chat_vars, side_vars, snapshot, startup_pc, starts>>

\* knowledge_base.py:274-288, embed_knowledge_base
KbEmbed ==
    /\ \E vectors \in EmbeddingRuns, fail \in FailAt :
          LET r == embed_knowledge_base(knowledge_base, vectors, fail) IN
             /\ knowledge_base' = r.kb
             /\ kb_call' = [KbCall("embed_knowledge_base") EXCEPT
                               !.raised = r.raised, !.error = r.error,
                               !.embed_calls = r.embed_calls]
    /\ UNCHANGED <<chat_vars, side_vars, snapshot, startup_pc, starts>>

\* knowledge_base.py:364-378, save_knowledge_base
KbSave ==
    /\ snapshot' = save_knowledge_base(knowledge_base)
    /\ kb_call' = KbCall("save_knowledge_base")
    /\ UNCHANGED <<chat_vars, side_vars, knowledge_base, startup_pc, starts>>

\* knowledge_base.py:300-319, search_knowledge_base(query, client, top_k)
KbSearch ==
    /\ \E query_embedding \in EmbeddingOutcomes, top_k \in 0..MaxTopK :
          LET r == search_knowledge_base(knowledge_base, query_embedding, top_k) IN
             kb_call' = [KbCall("search_knowledge_base") EXCEPT
                            !.raised = r.raised, !.error = r.error,
                            !.results = r.results,
                            !.embedded_query = r.embedded_query,
                            !.query = IF r.embedded_query THEN query_embedding ELSE NotAsked,
                            !.top_k = top_k]
    /\ UNCHANGED <<chat_vars, side_vars, knowledge_base, snapshot, startup_pc, starts>>

\* knowledge_base.py:322-340, search_airline_policies(query, client)
KbSearchAirlinePolicies ==
    /\ \E query_embedding \in EmbeddingOutcomes :
          LET found == search_knowledge_base(knowledge_base, query_embedding, DefaultTopK)
              answer == PolicyText(found)
          IN kb_call' = [KbCall("search_airline_policies") EXCEPT
                            !.raised = answer.raised,
                            !.error = IF answer.raised THEN answer.value ELSE NoneVal,
                            !.text = IF answer.raised THEN NoneVal ELSE answer.value,
                            !.results = found.results,
                            !.embedded_query = found.embedded_query,
                            !.query = IF found.embedded_query THEN query_embedding ELSE NotAsked,
                            !.top_k = DefaultTopK]
    /\ UNCHANGED <<chat_vars, side_vars, knowledge_base, snapshot, startup_pc, starts>>

NextKB ==
    \/ KbInitialize
    \/ KbLoad
    \/ KbEmbed
    \/ KbSave
    \/ KbSearch
    \/ KbSearchAirlinePolicies

SpecKB == InitKB /\ [][NextKB]_vars

(* -------------------------- startup of app.py -------------------------- *)
NameErrorSave == "NameError: name 'save_knowledge_base' is not defined"

\* one run of the startup code: what load_knowledge_base found and returned,
\* the get_embedding calls of embed_knowledge_base, whether the snapshot was
\* written, and how the run ended
Startup(found, loaded, embed_calls, embedded, saved, outcome, error) ==
    [found |-> found, loaded |-> loaded, embed_calls |-> embed_calls,
     embedded |-> embedded, saved |-> saved, outcome |-> outcome, error |-> error]
ThisStartup == starts[Len(starts)]
Record(startup) == [starts EXCEPT ![Len(starts)] = startup]

\* app.py:57-59, the process starts: the module knowledge_base is imported
\* and initialize_knowledge_base() fills it with the catalog
StartupInitialize ==
    /\ startup_pc \in {"not_started", "ready", "aborted"}
    /\ Len(starts) < MaxStartups
    /\ knowledge_base' = Catalog
    /\ starts' = Append(starts, Startup(NoneVal, FALSE, 0, FALSE, FALSE, "running", NoneVal))
    /\ startup_pc' = "load"
    /\ kb_call' = NoCall
    /\ UNCHANGED <<chat_vars, side_vars, snapshot>>

\* app.py:61-62 and 67-70, loaded = load_knowledge_base("knowledge_base.json");
\* an exception ends the process, True leads to "Agent ready"
StartupLoad ==
    /\ startup_pc = "load"
    /\ LET r == load_knowledge_base(snapshot, knowledge_base) IN
          /\ knowledge_base' = r.kb
          /\ starts' = Record([ThisStartup EXCEPT
                                  !.found = snapshot.state,
                                  !.loaded = r.loaded,
                                  !.error = r.error,
                                  !.outcome = IF r.raised THEN "aborted"
                                              ELSE IF r.loaded THEN "ready"
                                              ELSE "running"])
          /\ startup_pc' = IF r.raised THEN "aborted"
                           ELSE IF r.loaded THEN "ready"
                           ELSE "embed"
    /\ UNCHANGED <<chat_vars, side_vars, snapshot, kb_call>>

\* app.py:63-65, embed_knowledge_base(openai_client)
StartupEmbed ==
    /\ startup_pc = "embed"
    /\ \E vectors \in EmbeddingRuns, fail \in FailAt :
          LET r == embed_knowledge_base(knowledge_base, vectors, fail) IN
             /\ knowledge_base' = r.kb
             /\ starts' = Record([ThisStartup EXCEPT
                                     !.embed_calls = r.embed_calls,
                                     !.embedded = ~r.raised,
                                     !.error = r.error,
                                     !.outcome = IF r.raised THEN "aborted" ELSE "running"])
             /\ startup_pc' = IF r.raised THEN "aborted" ELSE "save"
    /\ UNCHANGED <<chat_vars, side_vars, snapshot, kb_call>>

\* app.py:66 with app.py:25-31: the name save_knowledge_base is not imported,
\* the call raises NameError and the file is not written
StartupSave ==
    /\ startup_pc = "save"
    /\ starts' = Record([ThisStartup EXCEPT !.error = NameErrorSave, !.outcome = "aborted"])
    /\ startup_pc' = "aborted"
    /\ UNCHANGED <<chat_vars, side_vars, knowledge_base, snapshot, kb_call>>

\* app.py:133-136, the agent is ready and a tool call asks for policies
ReadySearchAirlinePolicies ==
    /\ startup_pc = "ready"
    /\ KbSearchAirlinePolicies

NextStartup ==
    \/ StartupInitialize
    \/ StartupLoad
    \/ StartupEmbed
    \/ StartupSave
    \/ ReadySearchAirlinePolicies

SpecStartup == InitKB /\ [][NextStartup]_vars

(* ----------------------- calls of utils.py and tools.py ---------------- *)
\* the modules are imported and nothing has been called
InitImported ==
    /\ ChatIdle
    /\ claude_client = TRUE
    /\ GOOGLE_API_KEY = TRUE
    /\ KbNotStarted
    /\ snapshot = AbsentSnapshot
    /\ SideIdle

\* largest number of records in audit_logs
MaxLogCalls == 2

\* arguments of log_interaction
LogResponses == {"answer", NoneVal}
LogToolsUsed ==
    { <<>>, <<"lookup_booking">>, <<"lookup_booking", "lookup_booking">>,
      <<"process_refund", "lookup_booking">> }
LogModels == {"openai", "claude", DefaultLogModel}
LogErrors == {NoneVal, "timeout"}

\* utils.py:18-58, a call of log_interaction: it raises on a None response
\* before anything is stored
LogInteraction ==
    /\ Len(audit_logs) < MaxLogCalls
    /\ \E um \in UserMessages, response \in LogResponses, tu \in LogToolsUsed,
          model \in LogModels, error \in LogErrors :
          IF log_interaction_raises(response)
          THEN UNCHANGED sinks
          ELSE log_interaction(um, response, tu, model, error)
    /\ UNCHANGED <<kb_vars, side_vars, pc, exchanges, config, args, cwf, cwt, hist>>

NextLog == LogInteraction

SpecLog == InitImported /\ [][NextLog]_vars

\* tools.py:71-109, a call of process_refund
ProcessRefund ==
    /\ \E pnr \in PnrArguments, reason \in Reasons, ref \in RefundRefs :
          LET r == process_refund(pnr, reason, ref, BOOKINGS_DB, refund_requests) IN
             /\ refund_requests' = r.refund_requests
             /\ refund_call' = RefundCall(pnr, reason, refund_requests, r.text)
    /\ UNCHANGED <<chat_vars, kb_vars, note_vars, BOOKINGS_DB>>

NextRefund == ProcessRefund

SpecRefund == InitImported /\ [][NextRefund]_vars

\* utils.py:195-199, add_notification_callback
AddNotificationCallback ==
    /\ Len(notification_callbacks) < MaxCallbacks
    /\ \E callback \in Callbacks :
          notification_callbacks' = Append(notification_callbacks, callback)
    /\ UNCHANGED <<chat_vars, kb_vars, tool_vars, deliveries>>

NotificationLevels == {"info", "critical"}

\* utils.py:202-232, a call of send_notification
SendNotification ==
    /\ Len(sent) < MaxNotifications
    /\ \E level \in NotificationLevels : send_notification("title", "message", level)
    /\ UNCHANGED <<kb_vars, tool_vars, notification_callbacks, pc, exchanges, config,
                   sinks, args, cwf, cwt, attempts, failed, returned_ok, responses,
                   log_start, caller_history, requests, invoked, console, last_raised>>

NextNotify ==
    \/ AddNotificationCallback
    \/ SendNotification

SpecNotify == InitImported /\ [][NextNotify]_vars

(* ------------------------------ properties ----------------------------- *)
Backends == {"openai", "claude", "gemini"}
CanonicalIndex(model) == CHOOSE i \in DOMAIN all_models : all_models[i] = model
InExchange == pc \notin {"idle"}
HasFailed(model) == Contains(failed, model)
HasReturned(model) == \E i \in DOMAIN returned_ok : returned_ok[i].model_used = model
\* the records appended to audit_logs since the exchange started
ExchangeLogs == SubSeq(audit_logs, log_start + 1, Len(audit_logs))
OpenAIRequests == {i \in DOMAIN requests : requests[i].model = "openai"}

\* C1: for a preferred_model among the three backends, models_to_try starts
\* with preferred_model, holds each backend exactly once, and lists the two
\* others in the canonical order openai, claude, gemini; for claude it is
\* exactly <<claude, openai, gemini>>
C1_FallbackSequence ==
    (InExchange /\ preferred_model \in Backends) =>
        /\ Len(models_to_try) = 3
        /\ models_to_try[1] = preferred_model
        /\ \A model \in Backends : Count(models_to_try, model) = 1
        /\ CanonicalIndex(models_to_try[2]) < CanonicalIndex(models_to_try[3])
        /\ (preferred_model = "claude" =>
               models_to_try = <<"claude", "openai", "gemini">>)
        /\ (preferred_model = "gemini" =>
               models_to_try = <<"gemini", "openai", "claude">>)

C1_Witness ==
    /\ pc = "loop"
    /\ preferred_model = "claude"
    /\ models_to_try = <<"claude", "openai", "gemini">>

\* C2 (as claimed): once a chat function has returned, no later backend is
\* attempted in the exchange, the model_used returned is that backend, and
\* every backend attempted before it failed
C2_FirstSuccessWins ==
    returned_ok # <<>> =>
        /\ Len(returned_ok) = 1
        /\ attempts[Len(attempts)] = returned_ok[1].model_used
        /\ \A i \in 1..(Len(attempts) - 1) : HasFailed(attempts[i])
        /\ (pc \in {"returned", "idle"} => ret.model_used = returned_ok[1].model_used)

\* C3: when all three backends failed, chat_with_fallback returns the fixed
\* degraded message, "none" and an empty tools_used, and exactly one
\* notification, of level error or critical, was sent in the exchange
C3_AllFailedDegraded ==
    /\ (pc = "returned" /\ \A model \in Backends : HasFailed(model)) =>
          /\ ret = Return(error_response, "none", <<>>)
          /\ Len(sent) = 1
          /\ sent[1].level \in {"error", "critical"}
    /\ (InExchange /\ ~(\A model \in Backends : HasFailed(model))) => sent = <<>>

C3_Witness ==
    /\ pc = "returned"
    /\ \A model \in Backends : HasFailed(model)
    /\ ret.model_used = "none"
    /\ Len(sent) = 1

IsFailureRecord(entry, model) == entry.model = model /\ entry.error # NoneVal
IsSuccessRecord(entry, model) == entry.model = model /\ entry.error = NoneVal
PrimaryFailedSecondarySucceeded ==
    pc = "returned" /\ HasFailed("openai") /\ HasReturned("claude")

\* C4 (as claimed): Primary failed and Secondary succeeded: the backend
\* returned is claude and the exchange's audit log holds exactly one failure
\* record for openai and exactly one success record for claude
C4_FailureAndSuccessLogged ==
    PrimaryFailedSecondarySucceeded =>
        /\ ret.model_used = "claude"
        /\ Cardinality({i \in DOMAIN ExchangeLogs :
                           IsFailureRecord(ExchangeLogs[i], "openai")}) = 1
        /\ Cardinality({i \in DOMAIN ExchangeLogs :
                           IsSuccessRecord(ExchangeLogs[i], "claude")}) = 1

\* C4 (amended): Primary failed and Secondary succeeded: the backend returned
\* is claude and the exchange's audit log holds exactly one record, the
\* success record of claude; the failure of openai is only printed, once
C4_OnlySuccessLogged ==
    PrimaryFailedSecondarySucceeded =>
        /\ ret.model_used = "claude"
        /\ Len(ExchangeLogs) = 1
        /\ IsSuccessRecord(ExchangeLogs[1], "claude")
        /\ Count(console, Line("failed", "openai")) = 1
        /\ Count(console, Line("responded", "claude")) = 1

C4_Witness ==
    /\ PrimaryFailedSecondarySucceeded
    /\ preferred_model = "openai"
    /\ ret.model_used = "claude"
    /\ Len(ExchangeLogs) = 1

\* C5: no backend's chat function is entered twice in one exchange
C5_EachBackendAtMostOnce ==
    \A model \in Backends : Count(attempts, model) <= 1

C5_Witness ==
    /\ pc = "returned"
    /\ Len(attempts) = 3
    /\ preferred_model = "gemini"

Names(calls) == [i \in DOMAIN calls |-> calls[i].name]
Ids(calls) == [i \in DOMAIN calls |-> calls[i].id]
IsToolTurn(message) == message.role = "tool"
\* the tool-result turns of a conversation, in order
ToolTurns(msgs) == SelectSeq(msgs, IsToolTurn)
ToolTurnIds(msgs) == [i \in DOMAIN ToolTurns(msgs) |-> ToolTurns(msgs)[i].tool_call_id]
SecondRequests == {i \in OpenAIRequests : ~requests[i].tools}

\* a payload that json.loads rejects, or whose keys are not the parameters of
\* a handler called with **args
Malformed(call) ==
    \/ ~call.arguments.json
    \/ /\ call.name \in {"get_ticket_price", "get_flight_status",
                         "lookup_booking", "process_refund"}
       /\ ~ /\ RequiredParams(call.name) \subseteq call.arguments.keys
            /\ call.arguments.keys \subseteq
                  RequiredParams(call.name) \cup OptionalParams(call.name)

\* the invocation got a tool-result turn: in the conversation being built, or
\* in the conversation of the second request
HasToolTurn(call, msgs) ==
    \E k \in DOMAIN msgs : msgs[k].role = "tool" /\ msgs[k].tool_call_id = call.id

GotToolTurn(call) ==
    \/ pc = "cwt_tools" /\ HasToolTurn(call, messages)
    \/ \E r \in SecondRequests : HasToolTurn(call, requests[r].messages)

\* C6 (as claimed): an invocation with a malformed payload gets a textual
\* result as its tool-result turn and the loop goes on to its second
\* request; it never ends the attempt with an exception
C6_MalformedPayloadRecovered ==
    \A i \in DOMAIN invoked : Malformed(invoked[i]) => GotToolTurn(invoked[i])

UnknownToolText(call) == "Error: Unknown tool '" \o call.name \o "'"
HasToolTurnWith(call, msgs, text) ==
    \E k \in DOMAIN msgs :
        /\ msgs[k].role = "tool"
        /\ msgs[k].tool_call_id = call.id
        /\ msgs[k].content = text

\* C7 (as claimed): an invocation of a name that is not registered never
\* raises: it gets the error text naming the tool as its tool-result turn
C7_UnknownToolNeverRaises ==
    \A i \in DOMAIN invoked :
        invoked[i].name \notin RegisteredTools =>
            \/ pc = "cwt_tools"
                  /\ HasToolTurnWith(invoked[i], messages, UnknownToolText(invoked[i]))
            \/ \E r \in SecondRequests :
                  HasToolTurnWith(invoked[i], requests[r].messages,
                                  UnknownToolText(invoked[i]))

BothRoundsRequestTools ==
    /\ Len(responses) = 2
    /\ responses[1].tool_calls # <<>>
    /\ responses[2].tool_calls # <<>>

\* C8: chat_with_tools requests the OpenAI backend at most twice; when both
\* responses ask for tools, exactly the invocations of the first response
\* are resolved, none after the second response, and chat_with_tools returns
\* the content of the second response
C8_OneRoundCap ==
    /\ Cardinality(OpenAIRequests) <= 2
    /\ Len(responses) <= 2
    /\ BothRoundsRequestTools =>
          /\ invoked = responses[1].tool_calls
          /\ \A i \in DOMAIN invoked, j \in DOMAIN responses[2].tool_calls :
                invoked[i].id # responses[2].tool_calls[j].id
          /\ returned_ok # <<>>
          /\ returned_ok[1] = Return(responses[2].content, "openai",
                                     Names(responses[1].tool_calls))

C8_Witness ==
    /\ BothRoundsRequestTools
    /\ pc = "returned"
    /\ ret.model_used = "openai"
    /\ ret.response = responses[2].content
    /\ Len(invoked) = 2

FirstResponseRequestsTools == responses # <<>> /\ responses[1].tool_calls # <<>>

\* C9 (as claimed): when the first response carries tool invocations, every
\* one of them is resolved exactly once, in emission order, each with a
\* tool-result turn carrying its identifier and its name in tools_used, in
\* the same order
C9_AllResolvedInOrder ==
    /\ (FirstResponseRequestsTools /\ pc = "cwt_tools") =>
          /\ invoked = SubSeq(tool_calls, 1, tc - 1)
          /\ ToolTurnIds(messages) = Ids(invoked)
          /\ cwt_tools_used = Names(invoked)
    /\ (FirstResponseRequestsTools /\ pc # "cwt_tools") =>
          /\ invoked = responses[1].tool_calls
          /\ \E r \in SecondRequests :
                ToolTurnIds(requests[r].messages) = Ids(responses[1].tool_calls)

FirstResponseWithoutTools == responses # <<>> /\ responses[1].tool_calls = <<>>

\* C10: when the first response carries no tool invocation, chat_with_tools
\* returns its content with an empty tools_used, after one request and
\* without invoking a tool
C10_NoToolsStraightToDone ==
    FirstResponseWithoutTools =>
        /\ Len(responses) = 1
        /\ Cardinality(OpenAIRequests) = 1
        /\ SecondRequests = {}
        /\ invoked = <<>>
        /\ returned_ok # <<>>
        /\ returned_ok[1] = Return(responses[1].content, "openai", <<>>)

C10_Witness ==
    /\ FirstResponseWithoutTools
    /\ pc = "returned"
    /\ ret = Return(responses[1].content, "openai", <<>>)

\* the last call was search_knowledge_base / search_airline_policies
Searched == kb_call.fn = "search_knowledge_base"
Answered == kb_call.fn = "search_airline_policies"
\* the search embedded the query and went on to score the documents
Scanned == kb_call.embedded_query /\ ~kb_call.query.raised
NoneEmbedded == \A i \in DOMAIN knowledge_base : ~knowledge_base[i].embedded
AllEmbedded == \A i \in DOMAIN knowledge_base : knowledge_base[i].embedded

\* the score of the i-th document of the corpus for the query of the last call
ScoreOf(i) == cosine_similarity(kb_call.query.vector, knowledge_base[i].embedding)
\* document i ranks before document j: higher score, or equal score and
\* earlier in the corpus
RanksBefore(i, j) ==
    \/ ScoreGreater(ScoreOf(i), ScoreOf(j))
    \/ ScoreEqual(ScoreOf(i), ScoreOf(j)) /\ i < j
RankOf(i) == 1 + Cardinality({j \in DOMAIN knowledge_base : RanksBefore(j, i)})
AtRank(p) == CHOOSE i \in DOMAIN knowledge_base : RankOf(i) = p

\* C11: search_knowledge_base(query, top_k) returns at most top_k results;
\* over a corpus whose documents all carry an embedding the result is the
\* first top_k entries of the corpus ordered by descending score, documents
\* of equal score in corpus order
C11_TopKStableDescending ==
    (Searched /\ ~kb_call.raised) =>
        /\ Len(kb_call.results) <= kb_call.top_k
        /\ (Scanned /\ AllEmbedded) =>
              /\ Len(kb_call.results) =
                    IF kb_call.top_k < Len(knowledge_base) THEN kb_call.top_k
                    ELSE Len(knowledge_base)
              /\ \A p \in DOMAIN kb_call.results :
                    /\ kb_call.results[p].document = knowledge_base[AtRank(p)]
                    /\ kb_call.results[p].score = ScoreOf(AtRank(p))
              /\ \A p \in DOMAIN kb_call.results : \A r \in DOMAIN kb_call.results :
                    p < r => ~ScoreGreater(kb_call.results[r].score, kb_call.results[p].score)

C11_Witness ==
    /\ Searched /\ ~kb_call.raised /\ Scanned
    /\ Len(knowledge_base) = 4
    /\ kb_call.top_k = 2
    /\ Len(kb_call.results) = 2
    /\ kb_call.results[1].document.id = "bag_001"
    /\ kb_call.results[2].document.id = "checkin_001"
    /\ ScoreEqual(kb_call.results[1].score, kb_call.results[2].score)

RECURSIVE AllBlocks(_)
AllBlocks(results) ==
    IF results = <<>> THEN ""
    ELSE "**" \o Head(results).document.title \o "**\n"
             \o Head(results).document.content \o "\n\n" \o AllBlocks(Tail(results))
TopScoreBelowThreshold ==
    kb_call.results = <<>> \/ ~AtLeastThreshold(kb_call.results[1].score)
Relevant(result) == AtLeastThreshold(result.score)

\* C12 as stated: search_airline_policies returns the not-found message when
\* the search result is empty or its top score is below 0.3, and otherwise
\* the blocks of all of the top 3 results in rank order
C12_AllTopKFormatted ==
    (Answered /\ ~kb_call.raised) =>
        /\ TopScoreBelowThreshold => kb_call.text = NotFoundMessage
        /\ ~TopScoreBelowThreshold =>
              kb_call.text = PolicyHeader \o AllBlocks(kb_call.results)

\* C12 amended: search_airline_policies returns the not-found message when
\* the search result is empty or its top score is below 0.3, and otherwise
\* the header followed by the blocks, in rank order, of those of the top 3
\* results whose score is at least 0.3
C12_RelevantTopKFormatted ==
    (Answered /\ ~kb_call.raised) =>
        /\ Len(kb_call.results) <= DefaultTopK
        /\ TopScoreBelowThreshold => kb_call.text = NotFoundMessage
        /\ ~TopScoreBelowThreshold =>
              kb_call.text = PolicyHeader \o AllBlocks(SelectSeq(kb_call.results, Relevant))

C12_Witness ==
    /\ Answered /\ ~kb_call.raised
    /\ Len(kb_call.results) = 3
    /\ AtLeastThreshold(kb_call.results[2].score)
    /\ ~AtLeastThreshold(kb_call.results[3].score)
    /\ kb_call.text = PolicyHeader \o AllBlocks(SubSeq(kb_call.results, 1, 2))

\* C13: while no document of the knowledge base has an embedding, the empty
\* knowledge base included, search_knowledge_base returns the empty sequence
\* without raising and without asking for the embedding of the query, and
\* search_airline_policies returns the not-found message
C13_NotReadyReturnsEmpty ==
    /\ (Searched /\ NoneEmbedded) =>
          /\ ~kb_call.raised
          /\ kb_call.results = <<>>
          /\ ~kb_call.embedded_query
    /\ (Answered /\ NoneEmbedded) =>
          /\ ~kb_call.raised
          /\ ~kb_call.embedded_query
          /\ kb_call.text = NotFoundMessage

C13_Witness ==
    /\ Answered
    /\ knowledge_base = Catalog
    /\ kb_call.text = NotFoundMessage
    /\ ~kb_call.embedded_query

\* the startup has called load_knowledge_base
LoadDone(startup) == startup.found # NoneVal

\* C14: a startup that finds the snapshot absent or not parseable is not
\* ended by the load: load_knowledge_base reports failure (returns False) and
\* the startup goes on to build the corpus from the catalog
C14_LoadFailsSoft ==
    \A i \in DOMAIN starts :
        (LoadDone(starts[i]) /\ starts[i].found \in {"absent", "malformed"}) =>
            /\ ~starts[i].loaded
            /\ starts[i].error # JSONDecodeError
            /\ i = Len(starts) =>
                  \/ startup_pc \in {"embed", "save"}
                  \/ starts[i].embed_calls > 0

\* C15: a startup that took the build-fresh path and embedded every document
\* writes the snapshot and completes, and the startup after it loads the
\* snapshot and makes no get_embedding call for the corpus
C15_BuildOnceThenLoad ==
    \A i \in DOMAIN starts :
        (starts[i].embedded /\ starts[i].outcome # "running") =>
            /\ starts[i].saved
            /\ starts[i].outcome = "ready"
            /\ snapshot.state = "ok"
            /\ (i + 1 \in DOMAIN starts /\ LoadDone(starts[i + 1])) =>
                  /\ starts[i + 1].loaded
                  /\ starts[i + 1].embed_calls = 0

\* C16: in every state of the knowledge base that initialize_knowledge_base,
\* load_knowledge_base and embed_knowledge_base can produce, a search that
\* goes on to score the documents finds an embedding on each of them
C16_ScannedDocumentsEmbedded ==
    ((Searched \/ Answered) /\ Scanned) => AllEmbedded

\* the texts a backend can answer with
BackendAnswers == (OpenAIContents \cup ClaudeTexts \cup GeminiTexts) \ {NoneVal}
\* str(e) of the exceptions chat_with_fallback can catch
ErrorTexts ==
    UNION {ApiErrors(model) : model \in Backends}
        \cup {ClaudeNotInitialized, GeminiNotConfigured, JSONDecodeError,
              ArgumentTypeError, LenOfNoneTypeError, EmbeddingApiError}
ChatPositions == {"idle", "loop", "cwt_request1", "cwt_tools", "returned"}

\* C17: chat_with_fallback never lets an exception out: every exception of an
\* attempt is caught and the loop goes on, and the call ends by returning a
\* triple whose text is the answer of the backend named in it or the fixed
\* degraded message, never the text of an error
C17_NeverRaisesNoRawError ==
    /\ pc \in ChatPositions
    /\ (InExchange /\ last_raised # NoRaise) =>
          /\ failed # <<>>
          /\ failed[Len(failed)] = last_raised.model
          /\ pc \in {"loop", "cwt_request1", "cwt_tools", "returned"}
    /\ pc = "returned" =>
          /\ ret.response \in BackendAnswers \cup {error_response}
          /\ ret.response \notin ErrorTexts
          /\ ret.response # last_error
          /\ ret.model_used \in Backends => ret.response \in BackendAnswers
          /\ ret.model_used \notin Backends => ret = Return(error_response, "none", <<>>)

C17_Witness ==
    /\ pc = "returned"
    /\ ret.model_used = "gemini"
    /\ Len(failed) = 2
    /\ last_raised.error \in ErrorTexts

\* C18: a call of chat_with_fallback appends exactly one entry to audit_logs
\* and adds exactly one to total_queries: nothing while the backends are
\* tried, one record when the call returns
C18_OneLogRecordPerCall ==
    /\ analytics_data.total_queries = Len(audit_logs)
    /\ pc = "idle" => Len(audit_logs) = exchanges
    /\ InExchange => log_start = exchanges - 1
    /\ (InExchange /\ pc # "returned") => Len(audit_logs) = log_start
    /\ pc = "returned" => Len(audit_logs) = log_start + 1

C18_Witness ==
    /\ pc = "returned"
    /\ Len(failed) = 3
    /\ Len(audit_logs) = log_start + 1
    /\ analytics_data.total_queries = exchanges

AllBackendsFailed == pc = "returned" /\ \A model \in Backends : HasFailed(model)

\* C19: when every backend failed, the message of the notification and the
\* error field of the log record are the error text of the backend tried last
C19_LastErrorReported ==
    AllBackendsFailed =>
        /\ last_raised.model = models_to_try[Len(models_to_try)]
        /\ Len(sent) = 1
        /\ sent[1].message = last_raised.error
        /\ Len(ExchangeLogs) = 1
        /\ ExchangeLogs[1].error = last_raised.error

C19_Witness ==
    /\ AllBackendsFailed
    /\ preferred_model = "openai"
    /\ sent[1].message = "gemini API error"
    /\ ExchangeLogs[1].error = "gemini API error"

PlainBackends == {"claude", "gemini"}

\* C20: only the openai attempt runs the tool loop: a request to claude or
\* gemini advertises no tools and carries the history and the user message
\* only, each of them gets at most one request, the tool loop is entered only
\* while openai is the backend tried, and a triple that names claude or
\* gemini has an empty tools_used, as has its log record
C20_ToolLoopOnlyOpenAI ==
    /\ \A i \in DOMAIN requests :
          requests[i].model \in PlainBackends =>
              /\ ~requests[i].tools
              /\ requests[i].messages = history \o <<Msg("user", user_message)>>
              /\ \A j \in DOMAIN requests : requests[j].model = requests[i].model => j = i
    /\ pc \in {"cwt_request1", "cwt_tools"} => CurrentModel = "openai"
    /\ invoked # <<>> => Contains(attempts, "openai")
    /\ (pc = "returned" /\ ret.model_used \in PlainBackends) =>
          /\ ret.tools_used = <<>>
          /\ ExchangeLogs[1].tools_used = <<>>

C20_Witness ==
    /\ pc = "returned"
    /\ ret.model_used = "claude"
    /\ invoked # <<>>
    /\ ret.tools_used = <<>>
    /\ \E i \in DOMAIN returned_ok :
          returned_ok[i].model_used = "openai" /\ returned_ok[i].tools_used # <<>>

\* C21: the tools_used of the triple chat_with_fallback returns, and of the
\* log record of the exchange, is the ordered list of the names invoked
\* through execute_tool_call during the exchange
C21_ToolsUsedAreInvoked ==
    pc = "returned" =>
        /\ ret.tools_used = Names(invoked)
        /\ ExchangeLogs[1].tools_used = Names(invoked)

\* C22: the log record of an exchange names the backend and the tools of the
\* returned triple; when every backend failed the record names "none" and
\* no count of model_usage other than that of "none" is raised
C22_LogRecordMatchesOutcome ==
    pc = "returned" =>
        /\ ExchangeLogs[1].model = ret.model_used
        /\ ExchangeLogs[1].tools_used = ret.tools_used
        /\ AllBackendsFailed =>
              /\ ExchangeLogs[1].model = "none"
              /\ DefaultLogModel \notin DOMAIN analytics_data.model_usage

OriginalTurns == <<Msg("system", SYSTEM_MESSAGE)>> \o history \o <<Msg("user", user_message)>>
FirstOpenAIRequest == CHOOSE i \in OpenAIRequests : \A j \in OpenAIRequests : i <= j
AssistantTurn(response) ==
    [role |-> "assistant", content |-> response.content,
     tool_call_id |-> NoneVal, tool_calls |-> response.tool_calls]
Round1 == responses[1].tool_calls

\* C24: the first request of chat_with_tools carries the original turns and
\* advertises the tools; a second request goes to the same backend, without
\* tools, and carries the original turns, the assistant turn with the tool
\* calls of the first response and one tool turn for each of these calls, in
\* their order
C24_SecondRequestContents ==
    /\ \A i \in DOMAIN requests :
          ToolTurns(requests[i].messages) # <<>> => requests[i].model = "openai"
    /\ \A i \in OpenAIRequests :
          IF i = FirstOpenAIRequest
          THEN /\ requests[i].tools
               /\ requests[i].messages = OriginalTurns
          ELSE /\ i = FirstOpenAIRequest + 1
               /\ ~requests[i].tools
               /\ responses # <<>>
               /\ Len(requests[i].messages) = Len(OriginalTurns) + 1 + Len(Round1)
               /\ SubSeq(requests[i].messages, 1, Len(OriginalTurns) + 1)
                     = OriginalTurns \o <<AssistantTurn(responses[1])>>
               /\ \A k \in DOMAIN Round1 :
                     LET turn == requests[i].messages[Len(OriginalTurns) + 1 + k] IN
                        /\ turn.role = "tool"
                        /\ turn.tool_call_id = Round1[k].id

C24_Witness ==
    /\ Cardinality(OpenAIRequests) = 2
    /\ Len(Round1) = 2
    /\ \E i \in OpenAIRequests :
          /\ ~requests[i].tools
          /\ Len(ToolTurns(requests[i].messages)) = 2

DegradedRecords == {i \in DOMAIN audit_logs : audit_logs[i].assistant_response = error_response}

\* C25: the error count of analytics_data is the number of exchanges in
\* which every backend failed, whatever the text of the last error
C25_ErrorCountPerFailedExchange ==
    analytics_data.errors = Cardinality(DegradedRecords)

\* C26: during and after an exchange the list passed as history holds the
\* turns it held when chat_with_fallback was called, in the same order
C26_HistoryUnchanged ==
    InExchange => history = caller_history

C26_Witness ==
    /\ pc = "returned"
    /\ history # <<>>
    /\ history = caller_history
    /\ failed # <<>>
    /\ \E i \in OpenAIRequests : ToolTurns(requests[i].messages) # <<>>

Running == pc \in {"loop", "cwt_request1", "cwt_tools"}
RequestsTo(model) == {i \in DOMAIN requests : requests[i].model = model}

\* C27: every exchange ends with chat_with_fallback returning, after at most
\* three attempts and at most four backend requests: at most two to openai
\* and at most one each to claude and gemini
C27_ExchangeTerminates ==
    /\ [](/\ Len(attempts) <= 3
          /\ Len(requests) <= 4
          /\ Cardinality(RequestsTo("openai")) <= 2
          /\ Cardinality(RequestsTo("claude")) <= 1
          /\ Cardinality(RequestsTo("gemini")) <= 1)
    /\ (Running ~> pc = "returned")

C27_Witness ==
    /\ pc = "returned"
    /\ Len(attempts) = 3
    /\ Len(requests) = 4

\* the names in the tools_used lists of the log, one per occurrence
ToolUses ==
    UNION {{<<i, k>> : k \in DOMAIN audit_logs[i].tools_used} : i \in DOMAIN audit_logs}
LoggedToolUses(name) == {u \in ToolUses : audit_logs[u[1]].tools_used[u[2]] = name}
LoggedTools == {audit_logs[u[1]].tools_used[u[2]] : u \in ToolUses}
LoggedWith(model) == {i \in DOMAIN audit_logs : audit_logs[i].model = model}
LoggedModels == {audit_logs[i].model : i \in DOMAIN audit_logs}

\* C23: total_queries is the number of records of audit_logs, model_usage
\* counts the records of each model, so its counts add up to total_queries,
\* and tool_calls counts for each name its occurrences in the tools_used
\* lists of the records
C23_AnalyticsMatchLog ==
    /\ analytics_data.total_queries = Len(audit_logs)
    /\ DOMAIN analytics_data.model_usage = LoggedModels
    /\ \A model \in LoggedModels :
          analytics_data.model_usage[model] = Cardinality(LoggedWith(model))
    /\ DOMAIN analytics_data.tool_calls = LoggedTools
    /\ \A name \in LoggedTools :
          analytics_data.tool_calls[name] = Cardinality(LoggedToolUses(name))

C23_Witness ==
    /\ Len(audit_logs) = 2
    /\ "lookup_booking" \in DOMAIN analytics_data.tool_calls
    /\ analytics_data.tool_calls["lookup_booking"] = 3
    /\ Cardinality(LoggedModels) = 2

RefundCalled == refund_call # NoRefundCall
\* the booking the last call named exists and is not cancelled
Refundable ==
    /\ UpperStrip(refund_call.pnr) \in DOMAIN Bookings
    /\ ~ContainsCancelled(Bookings[UpperStrip(refund_call.pnr)].status)

\* C28: process_refund leaves BOOKINGS_DB as it is; a call with an unknown
\* PNR or a cancelled booking leaves refund_requests as it is; a call on an
\* existing booking that is not cancelled adds one request and leaves the
\* requests stored before as they were
C28_RefundFrame ==
    /\ BOOKINGS_DB = Bookings
    /\ (RefundCalled /\ ~Refundable) => refund_requests = refund_call.before
    /\ (RefundCalled /\ Refundable) =>
          /\ Cardinality(DOMAIN refund_requests)
                = Cardinality(DOMAIN refund_call.before) + 1
          /\ \A ref \in DOMAIN refund_call.before :
                /\ ref \in DOMAIN refund_requests
                /\ refund_requests[ref] = refund_call.before[ref]

Sent == sent # <<>>
LastSent == sent[Len(sent)]

\* C29: send_notification calls every registered callback once, in the order
\* of registration, each with the notification sent; a callback that raises
\* stops neither the calls after it nor send_notification
C29_EveryCallbackOnce ==
    Sent =>
        /\ ~deliveries.raised
        /\ Len(deliveries.calls) = Len(deliveries.registered)
        /\ \A i \in DOMAIN deliveries.calls :
              /\ deliveries.calls[i].callback = deliveries.registered[i].id
              /\ deliveries.calls[i].notification = LastSent
              /\ deliveries.calls[i].raised = deliveries.registered[i].raises
        /\ SubSeq(notification_callbacks, 1, Len(deliveries.registered))
              = deliveries.registered

C29_Witness ==
    /\ Sent
    /\ Len(deliveries.registered) = 2
    /\ deliveries.registered[1].raises
    /\ Len(deliveries.calls) = 2
    /\ deliveries.calls[1].raised
    /\ deliveries.calls[2].callback = deliveries.registered[2].id

=============================================================================
